---------------------------- MODULE Spec2Model ----------------------------
(***************************************************************************)
(* A2L generator of FOME_Integration/tools/a2l_generator.py.               *)
(*                                                                         *)
(* A Session (class A2LGenerator) holds a project name, a version and      *)
(* three ordered lists of entities.  generate() renders it to text.        *)
(*                                                                         *)
(* Text.  generate() builds a list of lines and joins them with "\n".      *)
(* Here a text is the sequence of its lines, a line is the sequence of its *)
(* whitespace-separated tokens (indentation dropped, a double-quoted       *)
(* string being one token), and a token is the sequence of the segments    *)
(* the f-string concatenates: literal pieces and formatted fields.  So     *)
(*    f'/begin MODULE {p}_Module ""'                                       *)
(* is  << <<"/begin">>, <<"MODULE">>, <<p, "_Module">>, <<"\"","","\"">> >>*)
(* and ECU_ADDRESS 0x00001000 ends with the token                          *)
(*    <<"0x","0","0","0","0","1","0","0","0">>.                            *)
(* Identifier-valued arguments (names, datatypes, conversions, the project *)
(* name) are drawn from identifiers (no blank in them) and string-valued   *)
(* ones (descriptions, units, formulas) from texts with no double quote,   *)
(* as section 3 of the specification describes them.                       *)
(*                                                                         *)
(* Integers.  A Python int is unbounded; an address is modelled as a sign  *)
(* and a little-endian sequence of base-65536 limbs with no leading zero   *)
(* limb, so that 0xDEADBEEF and 2^32 are values of the model.  An address  *)
(* that json.load read from a JSON string is a str, not an int.            *)
(*                                                                         *)
(* Exceptions.  A method that can raise is an operator that gives the      *)
(* state it leaves and the name of the exception ("" when it returns).     *)
(*                                                                         *)
(* Specifications.                                                         *)
(*   Spec      one instance: registrations, the catalog, generate()        *)
(*   SpecLoad  one instance: load_from_json, generate()                    *)
(*   SpecSave  one instance: registrations, the catalog, generate(), save()*)
(*   SpecTwo   two instances with their calls interleaved                  *)
(*   SpecMain  one instance: the catalog, load_from_json, main()           *)
(***************************************************************************)
EXTENDS Integers, Sequences, FiniteSets, TLC

VARIABLES
    generator,   \* the A2LGenerator instance (self)
    log,         \* ghost: the API calls made on the instance, in call order
    content,     \* the text last returned by generate(); <<>> before any
    gen_at,      \* ghost: Len(log) when that generate() ran
    outcome,     \* ghost: how the last call ended (see Outcome)
    files,       \* the file system: the text stored under each path
    heap,        \* two instances: the list objects, by identity
    inst,        \* two instances: each instance's attributes
    texts        \* two instances: the text last returned by each one's
                 \* generate(), and ghost: how many calls it had had then

vars == <<generator, log, content, gen_at, outcome, files, heap, inst, texts>>

-----------------------------------------------------------------------------
(* Bounds *)

\* number of API calls recorded in the log (registrations, catalog loads,
\* load_from_json and save calls; generate() is not counted)
MaxCalls == 2

-----------------------------------------------------------------------------
(* Python int, and format(address, "08X") *)

PyInt(neg, limbs) == [neg |-> neg, limbs |-> limbs]

\* Addr(hi, lo) is the non-negative int hi * 65536 + lo, 0 < hi
Addr(hi, lo) == PyInt(FALSE, <<lo, hi>>)

\* the non-negative int lo < 65536
Small(lo) == PyInt(FALSE, IF lo = 0 THEN <<>> ELSE <<lo>>)

HexUpper ==
    <<"0", "1", "2", "3", "4", "5", "6", "7",
      "8", "9", "A", "B", "C", "D", "E", "F">>

HexLower ==
    <<"0", "1", "2", "3", "4", "5", "6", "7",
      "8", "9", "a", "b", "c", "d", "e", "f">>

Zeros(n) == [i \in 1..n |-> "0"]

RECURSIVE HexOfNat(_, _)
\* the digits of n in base 16, most significant first, no leading zero
HexOfNat(n, alphabet) ==
    IF n < 16 THEN <<alphabet[n + 1]>>
    ELSE HexOfNat(n \div 16, alphabet) \o <<alphabet[(n % 16) + 1]>>

RECURSIVE HexOfLimbs(_, _)
\* the digits of a magnitude: the top limb as it is, each lower limb as 4 digits
HexOfLimbs(limbs, alphabet) ==
    IF limbs = <<>> THEN <<"0">>
    ELSE IF Len(limbs) = 1 THEN HexOfNat(limbs[1], alphabet)
    ELSE LET low == HexOfNat(limbs[1], alphabet)
         IN  HexOfLimbs(Tail(limbs), alphabet) \o Zeros(4 - Len(low)) \o low

\* format(a, "08x"): lowercase digits
Format08xLower(a) ==
    LET sign   == IF a.neg THEN <<"-">> ELSE <<>>
        digits == HexOfLimbs(a.limbs, HexLower)
        fill   == 8 - Len(sign) - Len(digits)
    IN  sign \o Zeros(IF fill > 0 THEN fill ELSE 0) \o digits

\* format(a, "08X"): the sign, then zeros up to a total width of 8 (sign
\* included), then the uppercase hexadecimal digits of |a|; never truncated
Format08X(a) ==
    LET sign   == IF a.neg THEN <<"-">> ELSE <<>>
        digits == HexOfLimbs(a.limbs, HexUpper)
        fill   == 8 - Len(sign) - Len(digits)
    IN  sign \o Zeros(IF fill > 0 THEN fill ELSE 0) \o digits

\* f'0x{address:08X}' as one token
HexAddress(a) == <<"0x">> \o Format08X(a)

\* an address that is a str and no int, as json.load gives "0x20001000"
PyStr(s) == [str |-> s]

IsInt(a) == "limbs" \in DOMAIN a

\* the exception format(a, "08X") raises, "" when it returns: format code
\* 'X' is unknown for an object of type str
FormatError(a) == IF IsInt(a) THEN "" ELSE "ValueError"

-----------------------------------------------------------------------------
(* Tokens and lines *)

\* a line of bare words
Words(ws) == [i \in DOMAIN ws |-> <<ws[i]>>]

\* f'"{s}"'
Quoted(s) == <<"\"", s, "\"">>

\* f'{n}' of an int limit
Num(n) == <<ToString(n)>>

Blank == <<>>

RECURSIVE FlattenRange(_, _, _)
FlattenRange(seqs, i, j) ==
    IF i > j THEN <<>>
    ELSE IF i = j THEN seqs[i]
    ELSE LET mid == (i + j) \div 2
         IN  FlattenRange(seqs, i, mid) \o FlattenRange(seqs, mid + 1, j)

\* the concatenation of the sequences of seqs, in order
Flatten(seqs) == FlattenRange(seqs, 1, Len(seqs))

-----------------------------------------------------------------------------
(* The clock: datetime.now().strftime("%Y-%m-%d %H:%M") *)

Pad2(n) == IF n < 10 THEN "0" \o ToString(n) ELSE ToString(n)

Pad4(n) ==
    IF n < 10 THEN "000" \o ToString(n)
    ELSE IF n < 100 THEN "00" \o ToString(n)
    ELSE IF n < 1000 THEN "0" \o ToString(n)
    ELSE ToString(n)

DateTime(Y, M, D, h, m, s) ==
    [year |-> Y, month |-> M, day |-> D, hour |-> h, minute |-> m, second |-> s]

\* the readings datetime.now() may return
Clock == {DateTime(2024, 1, 5, 9, 7, 30), DateTime(2024, 1, 5, 9, 8, 2)}

strftime(now) ==
    Pad4(now.year) \o "-" \o Pad2(now.month) \o "-" \o Pad2(now.day)
        \o " " \o Pad2(now.hour) \o ":" \o Pad2(now.minute)

\* the reading recorded for a call that does not read the clock
NoTime == DateTime(0, 0, 0, 0, 0, 0)

-----------------------------------------------------------------------------
(* How a call ended: the method, the exception it raised ("" when it       *)
(* returned), the clock reading it took and the text it had generated.     *)

Outcome(op, error, now, text) ==
    [op |-> op, error |-> error, now |-> now, text |-> text]

Returned(op) == Outcome(op, "", NoTime, <<>>)

-----------------------------------------------------------------------------
(* A2LGenerator: construction and registration *)

\* __init__
A2LGenerator(project_name, version) ==
    [project_name    |-> project_name,
     version         |-> version,
     measurements    |-> <<>>,
     characteristics |-> <<>>,
     compu_methods   |-> <<>>,
     record_layouts  |-> <<>>]

\* the value bound to parameter k: the argument when given, else the default
Arg(kw, k, default) == IF k \in DOMAIN kw THEN kw[k] ELSE default

\* the dict add_measurement and add_characteristic append
Variable(kw) ==
    [name        |-> kw.name,
     address     |-> kw.address,
     datatype    |-> kw.datatype,
     description |-> Arg(kw, "description", ""),
     unit        |-> Arg(kw, "unit", ""),
     lower_limit |-> Arg(kw, "lower_limit", 0),
     upper_limit |-> Arg(kw, "upper_limit", 100),
     conversion  |-> Arg(kw, "conversion", "NO_COMPU_METHOD")]

\* measurements.insert(0, ...) in place of append
add_measurement_front(self, kw) ==
    [self EXCEPT !.measurements = <<Variable(kw)>> \o @]

add_measurement(self, kw) ==
    [self EXCEPT !.measurements = Append(@, Variable(kw))]

\* an entry of the same name is overwritten in place, not appended after it
add_characteristic_replacing(self, kw) ==
    IF \E i \in DOMAIN self.characteristics :
           self.characteristics[i].name = kw.name
    THEN [self EXCEPT !.characteristics =
             [i \in DOMAIN @ |-> IF @[i].name = kw.name THEN Variable(kw)
                                 ELSE @[i]]]
    ELSE [self EXCEPT !.characteristics = Append(@, Variable(kw))]

add_characteristic(self, kw) ==
    [self EXCEPT !.characteristics = Append(@, Variable(kw))]

CompuMethod(kw) ==
    [name        |-> kw.name,
     formula     |-> kw.formula,
     unit        |-> kw.unit,
     description |-> Arg(kw, "description", "")]

\* a name already registered is not registered again
add_compu_method_unique(self, kw) ==
    IF \E i \in DOMAIN self.compu_methods : self.compu_methods[i].name = kw.name
    THEN self
    ELSE [self EXCEPT !.compu_methods = Append(@, CompuMethod(kw))]

add_compu_method(self, kw) ==
    [self EXCEPT !.compu_methods = Append(@, CompuMethod(kw))]

\* one registration call, as the catalog and the log record it
Call(op, kw) == [op |-> op, kw |-> kw]

Apply(self, call) ==
    CASE call.op = "add_compu_method"   -> add_compu_method(self, call.kw)
      [] call.op = "add_measurement"    -> add_measurement(self, call.kw)
      [] call.op = "add_characteristic" -> add_characteristic(self, call.kw)

RECURSIVE ApplyAll(_, _)
ApplyAll(self, calls) ==
    IF calls = <<>> THEN self
    ELSE ApplyAll(Apply(self, Head(calls)), Tail(calls))

-----------------------------------------------------------------------------
(* Instances side by side.  A Python list is an object: two attributes    *)
(* that are bound to the same list see each other's appends.  The heap is *)
(* the sequence of the list objects, a list's identity its place in it,   *)
(* and an instance holds the identities of its four lists.                *)

EmptyLists == << <<>>, <<>>, <<>>, <<>> >>

\* the four lists created once, and bound by every instance
NewA2LGeneratorSharedLists(h, project_name, version) ==
    [heap |-> IF h = <<>> THEN EmptyLists ELSE h,
     self |-> [project_name    |-> project_name,
               version         |-> version,
               measurements    |-> 1,
               characteristics |-> 2,
               compu_methods   |-> 3,
               record_layouts  |-> 4]]

\* __init__ on heap h: each "= []" creates a list object of its own
NewA2LGenerator(h, project_name, version) ==
    [heap |-> h \o EmptyLists,
     self |-> [project_name    |-> project_name,
               version         |-> version,
               measurements    |-> Len(h) + 1,
               characteristics |-> Len(h) + 2,
               compu_methods   |-> Len(h) + 3,
               record_layouts  |-> Len(h) + 4]]

\* the instance with its lists read from the heap
Deref(h, self) ==
    [project_name    |-> self.project_name,
     version         |-> self.version,
     measurements    |-> h[self.measurements],
     characteristics |-> h[self.characteristics],
     compu_methods   |-> h[self.compu_methods],
     record_layouts  |-> h[self.record_layouts]]

\* the heap after a method has appended to the lists of self
Store(h, self, after) ==
    [i \in DOMAIN h |->
        IF i = self.measurements THEN after.measurements
        ELSE IF i = self.characteristics THEN after.characteristics
        ELSE IF i = self.compu_methods THEN after.compu_methods
        ELSE IF i = self.record_layouts THEN after.record_layouts
        ELSE h[i]]

-----------------------------------------------------------------------------
(* add_standard_ecu_variables: the built-in catalog *)

\* positional calls: add_compu_method(name, formula, unit, description)
CM4(name, formula, unit, description) ==
    Call("add_compu_method",
         [name |-> name, formula |-> formula, unit |-> unit,
          description |-> description])

\* the first seven parameters bound, conversion left to its default
Args7(name, address, datatype, description, unit, lower, upper) ==
    [name |-> name, address |-> address, datatype |-> datatype,
     description |-> description, unit |-> unit,
     lower_limit |-> lower, upper_limit |-> upper]

\* all eight parameters bound
Args8(name, address, datatype, description, unit, lower, upper, conversion) ==
    [name |-> name, address |-> address, datatype |-> datatype,
     description |-> description, unit |-> unit,
     lower_limit |-> lower, upper_limit |-> upper, conversion |-> conversion]

Meas7(n, a, t, d, u, lo, hi) ==
    Call("add_measurement", Args7(n, a, t, d, u, lo, hi))

Meas8(n, a, t, d, u, lo, hi, c) ==
    Call("add_measurement", Args8(n, a, t, d, u, lo, hi, c))

Char7(n, a, t, d, u, lo, hi) ==
    Call("add_characteristic", Args7(n, a, t, d, u, lo, hi))

Char8(n, a, t, d, u, lo, hi, c) ==
    Call("add_characteristic", Args8(n, a, t, d, u, lo, hi, c))

StandardCompuMethods ==
    << CM4("CM_RPM", "X*0.25", "rpm", "RPM conversion"),
       CM4("CM_TEMP", "X*0.1-40", "degC", "Temperature conversion"),
       CM4("CM_TPS", "X*0.5", "%", "Throttle position conversion"),
       CM4("CM_AFR", "X*0.1", "AFR", "Air-fuel ratio"),
       CM4("CM_MAP", "X*0.1", "kPa", "Manifold pressure"),
       CM4("CM_TIMING", "X*0.5-20", "deg", "Ignition timing"),
       CM4("CM_VOLTAGE", "X*0.01", "V", "Voltage conversion"),
       CM4("CM_SPEED", "X", "km/h", "Vehicle speed"),
       CM4("CM_PRESSURE", "X*0.1", "kPa", "Pressure") >>

StandardMeasurements ==
    << Meas8("engineRPM", Addr(\h2000, \h1000), "UWORD",
          "Engine speed", "rpm", 0, 10000, "CM_RPM"),
       Meas8("coolantTemp", Addr(\h2000, \h1002), "SWORD",
          "Coolant temperature", "degC", -40, 150, "CM_TEMP"),
       Meas8("intakeTemp", Addr(\h2000, \h1004), "SWORD",
          "Intake air temperature", "degC", -40, 150, "CM_TEMP"),
       Meas8("throttlePosition", Addr(\h2000, \h1006), "UBYTE",
          "Throttle position sensor", "%", 0, 100, "CM_TPS"),
       Meas8("manifoldPressure", Addr(\h2000, \h1007), "UWORD",
          "Manifold absolute pressure", "kPa", 0, 300, "CM_MAP"),
       Meas8("airFuelRatio", Addr(\h2000, \h1009), "UWORD",
          "Measured air-fuel ratio", "AFR", 10, 20, "CM_AFR"),
       Meas8("ignitionTiming", Addr(\h2000, \h100B), "SBYTE",
          "Current ignition timing", "deg", -20, 60, "CM_TIMING"),
       Meas8("batteryVoltage", Addr(\h2000, \h100C), "UWORD",
          "Battery voltage", "V", 0, 20, "CM_VOLTAGE"),
       Meas8("vehicleSpeed", Addr(\h2000, \h100E), "UWORD",
          "Vehicle speed", "km/h", 0, 300, "CM_SPEED"),
       Meas8("oilPressure", Addr(\h2000, \h1010), "UWORD",
          "Engine oil pressure", "kPa", 0, 1000, "CM_PRESSURE"),
       Meas7("shortTermFuelTrim", Addr(\h2000, \h1020), "SBYTE",
          "Short term fuel trim", "%", -25, 25),
       Meas7("longTermFuelTrim", Addr(\h2000, \h1021), "SBYTE",
          "Long term fuel trim", "%", -25, 25),
       Meas7("injectorPulseWidth", Addr(\h2000, \h1022), "UWORD",
          "Injector pulse width", "us", 0, 20000),
       Meas8("fuelPressure", Addr(\h2000, \h1024), "UWORD",
          "Fuel rail pressure", "kPa", 0, 600, "CM_PRESSURE"),
       Meas7("knockRetard", Addr(\h2000, \h1030), "UBYTE",
          "Knock retard", "deg", 0, 20),
       Meas7("knockLevel", Addr(\h2000, \h1031), "UBYTE",
          "Knock sensor level", "counts", 0, 255),
       Meas8("boostPressure", Addr(\h2000, \h1040), "UWORD",
          "Boost pressure", "kPa", 0, 300, "CM_MAP"),
       Meas8("boostTarget", Addr(\h2000, \h1042), "UWORD",
          "Boost target", "kPa", 0, 300, "CM_MAP"),
       Meas7("wastegatePosition", Addr(\h2000, \h1044), "UBYTE",
          "Wastegate position", "%", 0, 100) >>

StandardCharacteristics ==
    << Char8("idleRPMTarget", Addr(\h2000, \h2000), "UWORD",
          "Target idle RPM", "rpm", 500, 2000, "CM_RPM"),
       Char7("fuelMapBaseValue", Addr(\h2000, \h2002), "UWORD",
          "Base fuel map value", "ms", 0, 20),
       Char8("ignitionMapBaseValue", Addr(\h2000, \h2004), "SBYTE",
          "Base ignition timing", "deg", -20, 60, "CM_TIMING"),
       Char8("boostTargetMax", Addr(\h2000, \h2005), "UWORD",
          "Maximum boost target", "kPa", 0, 300, "CM_MAP"),
       Char8("revLimit", Addr(\h2000, \h2007), "UWORD",
          "Engine rev limit", "rpm", 0, 12000, "CM_RPM"),
       Char8("launchRPM", Addr(\h2000, \h2009), "UWORD",
          "Launch control RPM", "rpm", 2000, 6000, "CM_RPM"),
       Char7("tractionSlipTarget", Addr(\h2000, \h200B), "UBYTE",
          "Traction control slip target", "%", 0, 30) >>

\* the catalog without its characteristics
StandardCallsNoCharacteristics ==
    StandardCompuMethods \o StandardMeasurements

\* the catalog without its computation methods
StandardCallsNoCompuMethods ==
    StandardMeasurements \o StandardCharacteristics

\* the registration calls add_standard_ecu_variables makes, in its order
StandardCalls ==
    StandardCompuMethods \o StandardMeasurements \o StandardCharacteristics

add_standard_ecu_variables(self) == ApplyAll(self, StandardCalls)

-----------------------------------------------------------------------------
(* load_from_json *)

\* the parameters of a registration method that have no default
Required(op) ==
    IF op = "add_compu_method" THEN {"name", "formula", "unit"}
    ELSE {"name", "address", "datatype"}

\* all the parameters of a registration method
Parameters(op) ==
    IF op = "add_compu_method" THEN Required(op) \cup {"description"}
    ELSE Required(op) \cup {"description", "unit", "lower_limit",
                            "upper_limit", "conversion"}

\* self.add_x(**record): the call binds when every parameter without a
\* default is given and every key is a parameter; else it raises TypeError
Binds(call) ==
    /\ Required(call.op) \subseteq DOMAIN call.kw
    /\ DOMAIN call.kw \subseteq Parameters(call.op)

\* the records of one collection as calls, none when the key is absent
CollectionCalls(config, key, op) ==
    IF key \in DOMAIN config
    THEN [i \in DOMAIN config[key] |-> Call(op, config[key][i])]
    ELSE <<>>

\* the calls load_from_json makes for a configuration, in its order
ConfigCalls(config) ==
    CollectionCalls(config, "compu_methods", "add_compu_method")
        \o CollectionCalls(config, "measurements", "add_measurement")
        \o CollectionCalls(config, "characteristics", "add_characteristic")

\* the calls are made one after the other on the instance itself; the
\* first that raises ends the loop with what was appended before it
RECURSIVE RegisterAll(_, _)
RegisterAll(self, calls) ==
    IF calls = <<>> THEN [self |-> self, error |-> ""]
    ELSE IF ~Binds(Head(calls)) THEN [self |-> self, error |-> "TypeError"]
    ELSE RegisterAll(Apply(self, Head(calls)), Tail(calls))

\* a file as open() and json.load() find it: whether the path exists,
\* whether its text is JSON, and the object the text denotes
ConfigFile(exists, json, config) ==
    [exists |-> exists, json |-> json, config |-> config]

\* the instance after the call and the exception raised ("" when none)
load_from_json(self, file) ==
    IF ~file.exists THEN [self |-> self, error |-> "FileNotFoundError"]
    ELSE IF ~file.json THEN [self |-> self, error |-> "JSONDecodeError"]
    ELSE RegisterAll(self, ConfigCalls(file.config))

-----------------------------------------------------------------------------
(* generate *)

\* lines 151-153: the version marker and the PROJECT opening
ProjectOpen(self) ==
    << Words(<<"ASAP2_VERSION", "1", "61">>),
       Words(<<"/begin", "PROJECT", self.project_name>>)
           \o <<Quoted(self.project_name)>>,
       Blank >>

\* lines 154-158
HeaderSection(self) ==
    << Words(<<"/begin", "HEADER">>) \o <<Quoted(self.project_name)>>,
       Words(<<"VERSION">>) \o <<Quoted(self.version)>>,
       Words(<<"PROJECT_NO", self.project_name>>),
       Words(<<"/end", "HEADER">>),
       Blank >>

\* lines 161-162
ModuleOpen(self) ==
    << Words(<<"/begin", "MODULE">>)
           \o << <<self.project_name, "_Module">>, Quoted("") >>,
       Blank >>

\* lines 165-171
ModCommon ==
    << Words(<<"/begin", "MOD_COMMON">>) \o <<Quoted("")>>,
       Words(<<"BYTE_ORDER", "MSB_LAST">>),
       Words(<<"ALIGNMENT_BYTE", "1">>),
       Words(<<"ALIGNMENT_WORD", "2">>),
       Words(<<"ALIGNMENT_LONG", "4">>),
       Words(<<"/end", "MOD_COMMON">>),
       Blank >>

\* lines 174-181
\* the clock reading also stamped into the VERSION string
ModParStampedVersion(self, now) ==
    << Words(<<"/begin", "MOD_PAR">>) \o <<Quoted("")>>,
       Words(<<"VERSION">>)
           \o << <<"\"", self.version, " ", strftime(now), "\"">> >>,
       Words(<<"ADDR_EPK", "0x20000000">>),
       Words(<<"EPK">>) \o <<Quoted("FOME ECU")>>,
       Words(<<"CUSTOMER">>) \o <<Quoted("Open Source")>>,
       Words(<<"USER">>) \o << <<"\"", "Generated ", strftime(now), "\"">> >>,
       Words(<<"/end", "MOD_PAR">>),
       Blank >>

ModPar(self, now) ==
    << Words(<<"/begin", "MOD_PAR">>) \o <<Quoted("")>>,
       Words(<<"VERSION">>) \o <<Quoted(self.version)>>,
       Words(<<"ADDR_EPK", "0x20000000">>),
       Words(<<"EPK">>) \o <<Quoted("FOME ECU")>>,
       Words(<<"CUSTOMER">>) \o <<Quoted("Open Source")>>,
       Words(<<"USER">>) \o << <<"\"", "Generated ", strftime(now), "\"">> >>,
       Words(<<"/end", "MOD_PAR">>),
       Blank >>

\* the block without the line that closes FORMULA
CompuMethodBlockOpenFormula(cm) ==
    << Words(<<"/begin", "COMPU_METHOD", cm.name>>) \o <<Quoted(cm.description)>>,
       Words(<<"RAT_FUNC">>) \o <<Quoted("%6.2"), Quoted(cm.unit)>>,
       Words(<<"COEFFS", "0", "1", "0", "0", "0", "1">>),
       Words(<<"/begin", "FORMULA">>),
       <<Quoted(cm.formula)>>,
       Words(<<"/end", "COMPU_METHOD">>),
       Blank >>

\* lines 185-192: the body of the loop over compu_methods
CompuMethodBlock(cm) ==
    << Words(<<"/begin", "COMPU_METHOD", cm.name>>) \o <<Quoted(cm.description)>>,
       Words(<<"RAT_FUNC">>) \o <<Quoted("%6.2"), Quoted(cm.unit)>>,
       Words(<<"COEFFS", "0", "1", "0", "0", "0", "1">>),
       Words(<<"/begin", "FORMULA">>),
       <<Quoted(cm.formula)>>,
       Words(<<"/end", "FORMULA">>),
       Words(<<"/end", "COMPU_METHOD">>),
       Blank >>

\* lines 184-192
CompuMethodSection(self) ==
    Flatten([i \in DOMAIN self.compu_methods |->
                CompuMethodBlock(self.compu_methods[i])])

\* a layout block for each datatype the session's characteristics use
RecordLayoutSectionUsed(self) ==
    Flatten([i \in DOMAIN self.characteristics |->
        << Words(<<"/begin", "RECORD_LAYOUT">>)
               \o << <<self.characteristics[i].datatype, "_SCALAR">> >>,
           Words(<<"FNC_VALUES", "1", self.characteristics[i].datatype,
                   "ROW_DIR", "DIRECT">>),
           Words(<<"/end", "RECORD_LAYOUT">>),
           Blank >>])

\* lines 195-210: four literal blocks; nothing of self is read
RecordLayoutSection(self) ==
    << Words(<<"/begin", "RECORD_LAYOUT", "UBYTE_SCALAR">>),
       Words(<<"FNC_VALUES", "1", "UBYTE", "ROW_DIR", "DIRECT">>),
       Words(<<"/end", "RECORD_LAYOUT">>),
       Blank,
       Words(<<"/begin", "RECORD_LAYOUT", "SBYTE_SCALAR">>),
       Words(<<"FNC_VALUES", "1", "SBYTE", "ROW_DIR", "DIRECT">>),
       Words(<<"/end", "RECORD_LAYOUT">>),
       Blank,
       Words(<<"/begin", "RECORD_LAYOUT", "UWORD_SCALAR">>),
       Words(<<"FNC_VALUES", "1", "UWORD", "ROW_DIR", "DIRECT">>),
       Words(<<"/end", "RECORD_LAYOUT">>),
       Blank,
       Words(<<"/begin", "RECORD_LAYOUT", "SWORD_SCALAR">>),
       Words(<<"FNC_VALUES", "1", "SWORD", "ROW_DIR", "DIRECT">>),
       Words(<<"/end", "RECORD_LAYOUT">>),
       Blank >>

\* the block with the PHYS_UNIT line emitted whatever the unit
MeasurementBlockUnitAlways(m) ==
    << Words(<<"/begin", "MEASUREMENT", m.name>>) \o <<Quoted(m.description)>>,
       Words(<<m.datatype, m.conversion, "1", "0">>)
           \o <<Num(m.lower_limit), Num(m.upper_limit)>>,
       Words(<<"ECU_ADDRESS">>) \o <<HexAddress(m.address)>>,
       Words(<<"PHYS_UNIT">>) \o <<Quoted(m.unit)>>,
       Words(<<"/end", "MEASUREMENT">>),
       Blank >>

\* lines 214-220: the body of the loop over measurements
MeasurementBlock(m) ==
    << Words(<<"/begin", "MEASUREMENT", m.name>>) \o <<Quoted(m.description)>>,
       Words(<<m.datatype, m.conversion, "1", "0">>)
           \o <<Num(m.lower_limit), Num(m.upper_limit)>> >>
    \o << Words(<<"ECU_ADDRESS">>) \o <<HexAddress(m.address)>> >>
    \o (IF m.unit # "" THEN << Words(<<"PHYS_UNIT">>) \o <<Quoted(m.unit)>> >>
        ELSE <<>>)
    \o << Words(<<"/end", "MEASUREMENT">>), Blank >>

\* every block rendered with the address of the last measurement
MeasurementSectionLastAddress(self) ==
    LET ms == self.measurements
    IN  Flatten([i \in DOMAIN ms |->
            MeasurementBlock([ms[i] EXCEPT !.address = ms[Len(ms)].address])])

\* a conversion naming no registered computation method rendered as the sentinel
MeasurementSectionResolved(self) ==
    LET ms == self.measurements
        known(c) == \E k \in DOMAIN self.compu_methods :
                        self.compu_methods[k].name = c
    IN  Flatten([i \in DOMAIN ms |->
            MeasurementBlock(
                IF known(ms[i].conversion) THEN ms[i]
                ELSE [ms[i] EXCEPT !.conversion = "NO_COMPU_METHOD"])])

\* lines 213-220
MeasurementSection(self) ==
    Flatten([i \in DOMAIN self.measurements |->
                MeasurementBlock(self.measurements[i])])

\* lines 224-230: the body of the loop over characteristics
\* a datatype that has no RECORD_LAYOUT block is given the layout of UBYTE
CharacteristicBlockDefinedLayout(c) ==
    LET record_layout ==
            IF c.datatype \in {"UBYTE", "SBYTE", "UWORD", "SWORD"}
            THEN <<c.datatype, "_SCALAR">> ELSE <<"UBYTE", "_SCALAR">>
    IN  << Words(<<"/begin", "CHARACTERISTIC", c.name>>)
               \o <<Quoted(c.description)>>,
           Words(<<"VALUE">>) \o <<HexAddress(c.address), record_layout>>
               \o Words(<<"0", c.conversion>>)
               \o <<Num(c.lower_limit), Num(c.upper_limit)>> >>
        \o (IF c.unit # "" THEN << Words(<<"PHYS_UNIT">>) \o <<Quoted(c.unit)>> >>
            ELSE <<>>)
        \o << Words(<<"/end", "CHARACTERISTIC">>), Blank >>

CharacteristicBlock(c) ==
    LET record_layout == <<c.datatype, "_SCALAR">>
    IN  << Words(<<"/begin", "CHARACTERISTIC", c.name>>)
               \o <<Quoted(c.description)>>,
           Words(<<"VALUE">>) \o <<HexAddress(c.address), record_layout>>
               \o Words(<<"0", c.conversion>>)
               \o <<Num(c.lower_limit), Num(c.upper_limit)>> >>
        \o (IF c.unit # "" THEN << Words(<<"PHYS_UNIT">>) \o <<Quoted(c.unit)>> >>
            ELSE <<>>)
        \o << Words(<<"/end", "CHARACTERISTIC">>), Blank >>

\* lines 223-230
CharacteristicSection(self) ==
    Flatten([i \in DOMAIN self.characteristics |->
                CharacteristicBlock(self.characteristics[i])])

\* the closing tokens without the one of MODULE
CloseSectionProjectOnly ==
    << Words(<<"/end", "PROJECT">>) >>

\* lines 233-235
CloseSection ==
    << Words(<<"/end", "MODULE">>),
       Blank,
       Words(<<"/end", "PROJECT">>) >>

\* the sections with the measurements ahead of the record layouts
generate_measurements_first(self, now) ==
    ProjectOpen(self) \o HeaderSection(self) \o ModuleOpen(self)
        \o ModCommon \o ModPar(self, now)
        \o CompuMethodSection(self)
        \o MeasurementSection(self)
        \o RecordLayoutSection(self)
        \o CharacteristicSection(self)
        \o CloseSection

\* lines 146-237: the lines of the returned text, now being datetime.now()
\* the exception generate() raises, "" when it returns: the addresses are
\* formatted in the order of the blocks, and the first that fails raises
generate_error(self) ==
    LET variables == self.measurements \o self.characteristics
        failing   == {i \in DOMAIN variables :
                         FormatError(variables[i].address) # ""}
    IN  IF failing = {} THEN ""
        ELSE FormatError(variables[CHOOSE i \in failing :
                                      \A j \in failing : i <= j].address)

generate(self, now) ==
    ProjectOpen(self) \o HeaderSection(self) \o ModuleOpen(self)
        \o ModCommon \o ModPar(self, now)
        \o CompuMethodSection(self)
        \o RecordLayoutSection(self)
        \o MeasurementSection(self)
        \o CharacteristicSection(self)
        \o CloseSection

-----------------------------------------------------------------------------
(* save *)

\* the paths save() is called with: one that open(filepath, 'w') can
\* create, and one in a directory that does not exist
Paths == {"output.a2l", "/nonexistent/output.a2l"}

Writable == {"output.a2l"}

\* open(filepath, 'w') and f.write(content): the file holds the text
Written(fs, filepath, text) ==
    [p \in DOMAIN fs \cup {filepath} |-> IF p = filepath THEN text ELSE fs[p]]

\* the file system after save(filepath) under clock reading now, the
\* exception raised ("" when none) and the text its generate() returned
save(self, fs, filepath, now) ==
    IF generate_error(self) # ""
    THEN [files |-> fs, error |-> generate_error(self), text |-> <<>>]
    ELSE IF filepath \notin Writable
    THEN [files |-> fs, error |-> "FileNotFoundError",
          text |-> generate(self, now)]
    ELSE [files |-> Written(fs, filepath, generate(self, now)), error |-> "",
          text |-> generate(self, now)]

-----------------------------------------------------------------------------
(* main *)

\* the parsed command line: --standard, --config (a sequence holding the
\* file when the option is given, empty when it is not) and --output
Args(standard, config, output) ==
    [standard |-> standard, config |-> config, output |-> output]

\* the configuration loaded before the catalog
main_config_first(self, fs, args, now) ==
    LET loaded == IF args.config # <<>>
                  THEN load_from_json(self, args.config[1])
                  ELSE [self |-> self, error |-> ""]
        filled == IF args.standard
                  THEN add_standard_ecu_variables(loaded.self)
                  ELSE loaded.self
    IN  IF loaded.error # ""
        THEN [self |-> loaded.self, files |-> fs, error |-> loaded.error,
              text |-> <<>>]
        ELSE LET saved == save(filled, fs, args.output, now)
             IN  [self |-> filled, files |-> saved.files,
                  error |-> saved.error, text |-> saved.text]

\* lines 281-287 on the instance line 279 has constructed: the catalog when
\* asked for, then the configuration when given, then save(); an exception
\* ends the run where it is raised
main(self, fs, args, now) ==
    LET filled == IF args.standard THEN add_standard_ecu_variables(self)
                  ELSE self
        loaded == IF args.config # <<>>
                  THEN load_from_json(filled, args.config[1])
                  ELSE [self |-> filled, error |-> ""]
    IN  IF loaded.error # ""
        THEN [self |-> loaded.self, files |-> fs, error |-> loaded.error,
              text |-> <<>>]
        ELSE LET saved == save(loaded.self, fs, args.output, now)
             IN  [self |-> loaded.self, files |-> saved.files,
                  error |-> saved.error, text |-> saved.text]

-----------------------------------------------------------------------------
(* The calls of a run *)

\* A2LGenerator(...) as main and the tests construct it
Constructions ==
    { <<"FOME_RX8_ECU", "1.0">>, <<"TEST_PROJECT", "2.1">> }

\* 0x1000, 0x20002000, 0xDEADBEEF, 2^32 and -1
Address1000     == Small(\h1000)
Address20002000 == Addr(\h2000, \h2000)
AddressDEADBEEF == Addr(\hDEAD, \hBEEF)
AddressTwo32    == PyInt(FALSE, <<0, 0, 1>>)
AddressMinus1   == PyInt(TRUE, <<1>>)

\* the keyword arguments of the add_measurement calls of a run
MeasurementArgs ==
    { [name |-> "testVar", address |-> AddressDEADBEEF, datatype |-> "ULONG"],
      Args7("testVar", Address1000, "SWORD", "", "degC", -40, 150),
      Args8("convTest", Address1000, "UWORD", "", "", 0, 100, "CM_CUSTOM"),
      [name |-> "wideVar", address |-> AddressTwo32, datatype |-> "ULONG",
       unit |-> "kPa"] }

\* the keyword arguments of the add_characteristic calls of a run
CharacteristicArgs ==
    { Args7("testCharacteristic", Address20002000, "UBYTE",
            "Test characteristic", "%", 0, 100),
      [name |-> "testVar", address |-> AddressDEADBEEF, datatype |-> "FLOAT32",
       conversion |-> "CM_CUSTOM"],
      [name |-> "negChar", address |-> AddressMinus1, datatype |-> "SWORD"] }

\* the keyword arguments of the add_compu_method calls of a run
CompuMethodArgs ==
    { [name |-> "CM_CUSTOM", formula |-> "X*2", unit |-> "units"],
      [name |-> "CM_CUSTOM", formula |-> "X*0.1", unit |-> "kPa",
       description |-> "Test conversion"] }

\* the files load_from_json is called on: a path that does not exist, a
\* text that is no JSON, and JSON objects
ConfigFiles ==
    { ConfigFile(FALSE, FALSE, <<>>),
      ConfigFile(TRUE, FALSE, <<>>),
      ConfigFile(TRUE, TRUE, <<>>),
      ConfigFile(TRUE, TRUE,
          [compu_methods |->
               << [name |-> "CM_CUSTOM", formula |-> "X*2", unit |-> "units"] >>,
           measurements |->
               << [name |-> "cfgVar", address |-> Address1000,
                   datatype |-> "UBYTE"] >>,
           characteristics |->
               << [name |-> "cfgChar", address |-> Address20002000,
                   datatype |-> "UWORD", unit |-> "rpm", upper_limit |-> 9000,
                   conversion |-> "CM_CUSTOM"] >>]),
      ConfigFile(TRUE, TRUE,
          [measurements |->
               << [name |-> "strVar", address |-> PyStr("0x20001000"),
                   datatype |-> "UWORD"] >>]),
      ConfigFile(TRUE, TRUE,
          [measurements |->
               << [name |-> "cfgVar", address |-> Address1000,
                   datatype |-> "UBYTE"],
                  [name |-> "noAddress"] >>]),
      ConfigFile(TRUE, TRUE,
          [measurements |->
               << [name |-> "noted", address |-> Address1000,
                   datatype |-> "UBYTE", comment |-> "bench 3"] >>]),
      ConfigFile(TRUE, TRUE,
          [compu_methods |->
               << [name |-> "CM_CUSTOM", formula |-> "X*2", unit |-> "units"] >>,
           measurements |->
               << [name |-> "noAddress"] >>,
           characteristics |->
               << [name |-> "cfgChar", address |-> Address20002000,
                   datatype |-> "UWORD"] >>]) }

-----------------------------------------------------------------------------
(* The state machine *)

Init ==
    /\ \E c \in Constructions : generator = A2LGenerator(c[1], c[2])
    /\ log = <<>>
    /\ content = <<>>
    /\ gen_at = 0
    /\ outcome = Returned("__init__")
    /\ files = <<>>
    /\ heap = <<>>
    /\ inst = <<>>
    /\ texts = <<>>

AddMeasurement ==
    /\ Len(log) < MaxCalls
    /\ \E kw \in MeasurementArgs :
          /\ generator' = add_measurement(generator, kw)
          /\ log' = Append(log, Call("add_measurement", kw))
    /\ outcome' = Returned("add_measurement")
    /\ UNCHANGED <<content, gen_at, files, heap, inst, texts>>

AddCharacteristic ==
    /\ Len(log) < MaxCalls
    /\ \E kw \in CharacteristicArgs :
          /\ generator' = add_characteristic(generator, kw)
          /\ log' = Append(log, Call("add_characteristic", kw))
    /\ outcome' = Returned("add_characteristic")
    /\ UNCHANGED <<content, gen_at, files, heap, inst, texts>>

AddCompuMethod ==
    /\ Len(log) < MaxCalls
    /\ \E kw \in CompuMethodArgs :
          /\ generator' = add_compu_method(generator, kw)
          /\ log' = Append(log, Call("add_compu_method", kw))
    /\ outcome' = Returned("add_compu_method")
    /\ UNCHANGED <<content, gen_at, files, heap, inst, texts>>

AddStandardEcuVariables ==
    /\ Len(log) < MaxCalls
    /\ generator' = add_standard_ecu_variables(generator)
    /\ log' = Append(log, Call("add_standard_ecu_variables", <<>>))
    /\ outcome' = Returned("add_standard_ecu_variables")
    /\ UNCHANGED <<content, gen_at, files, heap, inst, texts>>

\* content = generator.generate(): nothing is returned when it raises
Generate ==
    /\ \E now \in Clock :
          LET error == generate_error(generator) IN
          /\ content' = IF error = "" THEN generate(generator, now) ELSE content
          /\ gen_at' = IF error = "" THEN Len(log) ELSE gen_at
          /\ outcome' = Outcome("generate", error, now, <<>>)
    /\ UNCHANGED <<generator, log, files, heap, inst, texts>>

\* generator.load_from_json(filepath)
LoadFromJson ==
    /\ Len(log) < MaxCalls
    /\ \E file \in ConfigFiles :
          LET loaded == load_from_json(generator, file) IN
          /\ generator' = loaded.self
          /\ log' = Append(log, Call("load_from_json", file))
          /\ outcome' = Outcome("load_from_json", loaded.error, NoTime, <<>>)
    /\ UNCHANGED <<content, gen_at, files, heap, inst, texts>>

Next ==
    \/ AddMeasurement
    \/ AddCharacteristic
    \/ AddCompuMethod
    \/ AddStandardEcuVariables
    \/ Generate

Spec == Init /\ [][Next]_vars

\* generator.save(filepath): the text is a local of save(), the caller gets
\* none of it
Save ==
    /\ Len(log) < MaxCalls
    /\ \E filepath \in Paths, now \in Clock :
          LET saved == save(generator, files, filepath, now) IN
          /\ files' = saved.files
          /\ outcome' = Outcome("save", saved.error, now, saved.text)
          /\ log' = Append(log, Call("save", filepath))
    /\ UNCHANGED <<generator, content, gen_at, heap, inst, texts>>

\* an instance populated by registrations, rendered and saved
NextSave ==
    \/ AddMeasurement
    \/ AddCharacteristic
    \/ AddCompuMethod
    \/ AddStandardEcuVariables
    \/ Generate
    \/ Save

SpecSave == Init /\ [][NextSave]_vars

\* an instance populated from configuration files
NextLoad ==
    \/ LoadFromJson
    \/ Generate

SpecLoad == Init /\ [][NextLoad]_vars

\* the command lines main() is run with
CommandLines ==
    {Args(standard, config, output) :
        standard \in BOOLEAN,
        config \in {<<>>} \cup {<<file>> : file \in ConfigFiles},
        output \in Paths}

\* main(), from the instance it has just constructed to its end
Main ==
    /\ log = <<>>
    /\ outcome.op = "__init__"
    /\ \E args \in CommandLines, now \in Clock :
          LET ran == main(generator, files, args, now) IN
          /\ generator' = ran.self
          /\ files' = ran.files
          /\ outcome' = Outcome("main", ran.error, now, ran.text)
          /\ log' = <<Call("main", args)>>
    /\ UNCHANGED <<content, gen_at, heap, inst, texts>>

\* an instance populated by the catalog and by configuration files, by the
\* caller's own calls or by main()
NextMain ==
    \/ AddStandardEcuVariables
    \/ LoadFromJson
    \/ Main

SpecMain == Init /\ [][NextMain]_vars

-----------------------------------------------------------------------------
(* Two instances, their calls interleaved *)

\* a call as the log records it, with the instance it was made on
CallOn(k, op, kw) == [op |-> op, kw |-> kw, on |-> k]

\* the calls of the log made on instance k, in call order
CallsOn(k) ==
    LET Is(c) == c.on = k IN SelectSeq(log, Is)

\* a = A2LGenerator(); b = A2LGenerator("TEST_PROJECT", "2.1")
InitTwo ==
    LET a == NewA2LGenerator(<<>>, "FOME_RX8_ECU", "1.0")
        b == NewA2LGenerator(a.heap, "TEST_PROJECT", "2.1")
    IN  /\ heap = b.heap
        /\ inst = <<a.self, b.self>>
        /\ texts = << [content |-> <<>>, at |-> 0], [content |-> <<>>, at |-> 0] >>
        /\ log = <<>>
        /\ outcome = Returned("__init__")
        /\ generator = <<>>
        /\ content = <<>>
        /\ gen_at = 0
        /\ files = <<>>

\* inst[k].add_measurement(**kw), and likewise below
AddMeasurementOn(k, kw) ==
    /\ heap' = Store(heap, inst[k], add_measurement(Deref(heap, inst[k]), kw))
    /\ log' = Append(log, CallOn(k, "add_measurement", kw))
    /\ outcome' = Returned("add_measurement")

AddCharacteristicOn(k, kw) ==
    /\ heap' = Store(heap, inst[k], add_characteristic(Deref(heap, inst[k]), kw))
    /\ log' = Append(log, CallOn(k, "add_characteristic", kw))
    /\ outcome' = Returned("add_characteristic")

AddCompuMethodOn(k, kw) ==
    /\ heap' = Store(heap, inst[k], add_compu_method(Deref(heap, inst[k]), kw))
    /\ log' = Append(log, CallOn(k, "add_compu_method", kw))
    /\ outcome' = Returned("add_compu_method")

AddStandardEcuVariablesOn(k) ==
    /\ heap' = Store(heap, inst[k],
                     add_standard_ecu_variables(Deref(heap, inst[k])))
    /\ log' = Append(log, CallOn(k, "add_standard_ecu_variables", <<>>))
    /\ outcome' = Returned("add_standard_ecu_variables")

\* texts[k] = inst[k].generate()
GenerateOn(k, now) ==
    LET self  == Deref(heap, inst[k])
        error == generate_error(self)
    IN  /\ texts' = IF error # "" THEN texts
                    ELSE [texts EXCEPT ![k] = [content |-> generate(self, now),
                                               at |-> Len(CallsOn(k))]]
        /\ outcome' = Outcome("generate", error, now, <<>>)

\* the arguments of the calls made on the two instances
TwoMeasurementArgs ==
    { Args8("convTest", Address1000, "UWORD", "", "", 0, 100, "CM_CUSTOM") }

TwoCharacteristicArgs ==
    { Args7("testCharacteristic", Address20002000, "UBYTE",
            "Test characteristic", "%", 0, 100) }

TwoCompuMethodArgs ==
    { [name |-> "CM_CUSTOM", formula |-> "X*2", unit |-> "units"] }

TwoAddMeasurement ==
    /\ Len(log) < MaxCalls
    /\ \E k \in DOMAIN inst, kw \in TwoMeasurementArgs : AddMeasurementOn(k, kw)
    /\ UNCHANGED <<generator, content, gen_at, files, inst, texts>>

TwoAddCharacteristic ==
    /\ Len(log) < MaxCalls
    /\ \E k \in DOMAIN inst, kw \in TwoCharacteristicArgs :
          AddCharacteristicOn(k, kw)
    /\ UNCHANGED <<generator, content, gen_at, files, inst, texts>>

TwoAddCompuMethod ==
    /\ Len(log) < MaxCalls
    /\ \E k \in DOMAIN inst, kw \in TwoCompuMethodArgs : AddCompuMethodOn(k, kw)
    /\ UNCHANGED <<generator, content, gen_at, files, inst, texts>>

TwoAddStandardEcuVariables ==
    /\ Len(log) < MaxCalls
    /\ \E k \in DOMAIN inst : AddStandardEcuVariablesOn(k)
    /\ UNCHANGED <<generator, content, gen_at, files, inst, texts>>

TwoGenerate ==
    /\ \E k \in DOMAIN inst, now \in Clock : GenerateOn(k, now)
    /\ UNCHANGED <<generator, log, content, gen_at, files, heap, inst>>

NextTwo ==
    \/ TwoAddMeasurement
    \/ TwoAddCharacteristic
    \/ TwoAddCompuMethod
    \/ TwoAddStandardEcuVariables
    \/ TwoGenerate

SpecTwo == InitTwo /\ [][NextTwo]_vars

-----------------------------------------------------------------------------
(* Reading a text back *)

RECURSIVE Str(_)
\* the characters of a token: its segments joined
Str(tok) == IF tok = <<>> THEN "" ELSE Head(tok) \o Str(Tail(tok))

\* the tokens of a line, each as its characters
Strs(line) == [i \in DOMAIN line |-> Str(line[i])]

\* the indices 1..n in order
Indices(n) == [i \in 1..n |-> i]

\* how many times the two-token phrase w1 w2 occurs in a line
Count(line, w1, w2) ==
    Cardinality({k \in 1..(Len(line) - 1) :
                    Str(line[k]) = w1 /\ Str(line[k + 1]) = w2})

\* the indices of the lines of a text that hold the phrase w1 w2, ascending
PhraseLines(text, w1, w2) ==
    LET Holds(i) == Count(text[i], w1, w2) > 0
    IN  SelectSeq(Indices(Len(text)), Holds)

\* whether a line starts with the two words w1 w2
StartsWith(line, w1, w2) ==
    /\ Len(line) >= 2
    /\ Str(line[1]) = w1
    /\ Str(line[2]) = w2

\* the indices of the lines '/begin tag ...' of a text, ascending
BeginLines(text, tag) ==
    LET Opens(i) == StartsWith(text[i], "/begin", tag)
    IN  SelectSeq(Indices(Len(text)), Opens)

\* the indices of the lines '/end tag' of a text, ascending
EndLines(text, tag) ==
    LET Closes(i) == StartsWith(text[i], "/end", tag)
    IN  SelectSeq(Indices(Len(text)), Closes)

(***************************************************************************)
(* Nesting.  Reading a stretch of the token stream leaves the tags of the *)
(* '/end' tokens that close nothing opened in the stretch (closes, in      *)
(* order) and the tags of the '/begin' tokens still open at its end        *)
(* (opens, innermost last); ok is FALSE once an '/end' met an innermost    *)
(* open block of another tag, or a '/begin' or '/end' is the last token of *)
(* its line.  Two adjacent stretches combine by closing the opens of the   *)
(* first with the closes of the second, innermost first.                   *)
(***************************************************************************)
NestOf(ok, closes, opens) == [ok |-> ok, closes |-> closes, opens |-> opens]

NestNone == NestOf(TRUE, <<>>, <<>>)

NestJoin(l, r) ==
    LET k == IF Len(l.opens) < Len(r.closes) THEN Len(l.opens) ELSE Len(r.closes)
    IN  NestOf(/\ l.ok
               /\ r.ok
               /\ \A n \in 1..k : l.opens[Len(l.opens) - n + 1] = r.closes[n],
               l.closes \o SubSeq(r.closes, k + 1, Len(r.closes)),
               SubSeq(l.opens, 1, Len(l.opens) - k) \o r.opens)

\* the k-th token of a line
NestToken(line, k) ==
    LET word == Str(line[k])
    IN  IF word = "/begin"
        THEN IF k < Len(line) THEN NestOf(TRUE, <<>>, <<Str(line[k + 1])>>)
             ELSE NestOf(FALSE, <<>>, <<>>)
        ELSE IF word = "/end"
        THEN IF k < Len(line) THEN NestOf(TRUE, <<Str(line[k + 1])>>, <<>>)
             ELSE NestOf(FALSE, <<>>, <<>>)
        ELSE NestNone

RECURSIVE NestLine(_, _)
\* the tokens k.. of a line
NestLine(line, k) ==
    IF k > Len(line) THEN NestNone
    ELSE NestJoin(NestToken(line, k), NestLine(line, k + 1))

RECURSIVE Nest(_, _, _)
\* the lines i..j of a text
Nest(text, i, j) ==
    IF i > j THEN NestNone
    ELSE IF i = j THEN NestLine(text[i], 1)
    ELSE LET mid == (i + j) \div 2
         IN  NestJoin(Nest(text, i, mid), Nest(text, mid + 1, j))

\* every '/end' closes the innermost open '/begin' of its tag, none is left open
WellNested(text) ==
    LET n == Nest(text, 1, Len(text))
    IN  n.ok /\ n.closes = <<>> /\ n.opens = <<>>

-----------------------------------------------------------------------------
(* What was registered when the text was generated *)

\* generate() has returned content and no call was made on the instance since
Rendered == content # <<>> /\ gen_at = Len(log)

\* the API calls made before the generate() that returned content
LogAt == SubSeq(log, 1, gen_at)

\* the registration calls a sequence of API calls amounts to
Registrations(calls) ==
    Flatten([i \in DOMAIN calls |->
                IF calls[i].op = "add_standard_ecu_variables"
                THEN StandardCalls ELSE <<calls[i]>>])

\* the keyword arguments of the registrations of one kind, in call order
Registered(op) ==
    LET Is(c) == c.op = op
        calls == SelectSeq(Registrations(LogAt), Is)
    IN  [i \in DOMAIN calls |-> calls[i].kw]

-----------------------------------------------------------------------------
(* C1 *)

\* C1: every text generate() returns is well nested: each '/end TAG' closes
\* the most recently opened, still open '/begin TAG', and no block stays open.
C1_WellNested == Rendered => WellNested(content)

\* a text with COMPU_METHOD blocks (FORMULA nested in them), measurements and
\* characteristics
C1_Witness ==
    /\ Rendered
    /\ BeginLines(content, "FORMULA") # <<>>
    /\ BeginLines(content, "MEASUREMENT") # <<>>
    /\ BeginLines(content, "CHARACTERISTIC") # <<>>

-----------------------------------------------------------------------------
(* C2 *)

\* C2: the text has exactly one '/begin PROJECT', one '/end PROJECT' and one
\* '/begin MODULE' / '/end MODULE' pair strictly between them; PROJECT is
\* opened with the project name and MODULE is named '<project>_Module'.
C2_OneProjectOneModule ==
    Rendered =>
        LET bp == PhraseLines(content, "/begin", "PROJECT")
            ep == PhraseLines(content, "/end", "PROJECT")
            bm == PhraseLines(content, "/begin", "MODULE")
            em == PhraseLines(content, "/end", "MODULE")
        IN  /\ Len(bp) = 1 /\ Count(content[bp[1]], "/begin", "PROJECT") = 1
            /\ Len(ep) = 1 /\ Count(content[ep[1]], "/end", "PROJECT") = 1
            /\ Len(bm) = 1 /\ Count(content[bm[1]], "/begin", "MODULE") = 1
            /\ Len(em) = 1 /\ Count(content[em[1]], "/end", "MODULE") = 1
            /\ bp[1] < bm[1] /\ bm[1] < em[1] /\ em[1] < ep[1]
            /\ Strs(content[bp[1]]) =
                   << "/begin", "PROJECT", generator.project_name,
                      "\"" \o generator.project_name \o "\"" >>
            /\ Strs(content[bm[1]]) =
                   << "/begin", "MODULE", generator.project_name \o "_Module",
                      "\"\"" >>

\* a text of a session that is not the default project and holds entities
C2_Witness ==
    /\ Rendered
    /\ generator.project_name = "TEST_PROJECT"
    /\ gen_at = 2
    /\ log[1].op = "add_standard_ecu_variables"

-----------------------------------------------------------------------------
(* C3 *)

SectionTags ==
    << "PROJECT", "HEADER", "MODULE", "MOD_COMMON", "MOD_PAR",
       "COMPU_METHOD", "RECORD_LAYOUT", "MEASUREMENT", "CHARACTERISTIC" >>

\* the place of a section tag in the fixed order
Rank(tag) == CHOOSE r \in DOMAIN SectionTags : SectionTags[r] = tag

\* the tags of the section-opening lines of a text, top to bottom
SectionHeads(text) ==
    LET Opens(i) ==
            /\ Len(text[i]) >= 2
            /\ Str(text[i][1]) = "/begin"
            /\ \E r \in DOMAIN SectionTags : SectionTags[r] = Str(text[i][2])
        at == SelectSeq(Indices(Len(text)), Opens)
    IN  [k \in DOMAIN at |-> Str(text[at[k]][2])]

\* the non-blank lines of a text
NonBlank(text) ==
    LET Full(line) == line # <<>> IN SelectSeq(text, Full)

\* C3: whatever the order of the registration calls, the text is: the version
\* marker, PROJECT, HEADER, MODULE, MOD_COMMON, MOD_PAR, all COMPU_METHOD
\* blocks, all RECORD_LAYOUT blocks, all MEASUREMENT blocks, all
\* CHARACTERISTIC blocks, and the closing tokens of MODULE and PROJECT.
C3_SectionOrder ==
    Rendered =>
        LET heads == SectionHeads(content)
            lines == NonBlank(content)
        IN  /\ Strs(lines[1]) = <<"ASAP2_VERSION", "1", "61">>
            /\ StartsWith(lines[2], "/begin", "PROJECT")
            /\ Len(heads) >= 5
            /\ SubSeq(heads, 1, 5) = SubSeq(SectionTags, 1, 5)
            /\ \A k \in 6..Len(heads) : Rank(heads[k]) >= 6
            /\ \A k \in 1..(Len(heads) - 1) : Rank(heads[k]) <= Rank(heads[k + 1])
            /\ Strs(lines[Len(lines) - 1]) = <<"/end", "MODULE">>
            /\ Strs(lines[Len(lines)]) = <<"/end", "PROJECT">>
            /\ LET last == BeginLines(content, heads[Len(heads)])
               IN  last[Len(last)] < EndLines(content, "MODULE")[1]

\* a text of a session where a computation method was registered after the
\* catalog's measurements and characteristics
C3_Witness ==
    /\ Rendered
    /\ gen_at = 2
    /\ log[1].op = "add_standard_ecu_variables"
    /\ log[2].op = "add_compu_method"

-----------------------------------------------------------------------------
(* C4 *)

\* the names of the blocks of one tag, top to bottom
BlockNames(text, tag) ==
    LET at == BeginLines(text, tag)
    IN  [k \in DOMAIN at |-> Str(text[at[k]][3])]

\* the names passed to the registrations of one kind, in call order
RegisteredNames(op) ==
    LET kws == Registered(op) IN [i \in DOMAIN kws |-> kws[i].name]

\* C4: the names of the MEASUREMENT blocks, top to bottom, are the names passed
\* to add_measurement in call order, and the names of the CHARACTERISTIC
\* blocks those passed to add_characteristic in call order.
C4_RegistrationOrder ==
    Rendered =>
        /\ BlockNames(content, "MEASUREMENT") = RegisteredNames("add_measurement")
        /\ BlockNames(content, "CHARACTERISTIC")
               = RegisteredNames("add_characteristic")

\* a text of a session with two measurements of different names
C4_Witness ==
    /\ Rendered
    /\ gen_at = 2
    /\ log[1].op = "add_measurement"
    /\ log[2].op = "add_measurement"
    /\ log[1].kw.name # log[2].kw.name

-----------------------------------------------------------------------------
(* C5 *)

\* how many '/begin tag' a text holds
BlockCount(text, tag) ==
    LET at == PhraseLines(text, "/begin", tag)
    IN  IF \A k \in DOMAIN at : Count(text[at[k]], "/begin", tag) = 1
        THEN Len(at) ELSE -1

\* C5: the text holds as many COMPU_METHOD blocks as add_compu_method was
\* called, a repeated name counting each time, and as many MEASUREMENT and
\* CHARACTERISTIC blocks as there were registrations of each; none of the
\* three for an empty Session.
C5_BlockCounts ==
    Rendered =>
        /\ BlockCount(content, "COMPU_METHOD")
               = Len(Registered("add_compu_method"))
        /\ BlockCount(content, "MEASUREMENT")
               = Len(Registered("add_measurement"))
        /\ BlockCount(content, "CHARACTERISTIC")
               = Len(Registered("add_characteristic"))

\* a text of a session where the same computation method name was registered
\* twice
C5_Witness ==
    /\ Rendered
    /\ gen_at = 2
    /\ log[1].op = "add_compu_method"
    /\ log[2].op = "add_compu_method"
    /\ log[1].kw.name = log[2].kw.name
    /\ BlockCount(content, "COMPU_METHOD") = 2

-----------------------------------------------------------------------------
(* C6 *)

LayoutTypes == <<"UBYTE", "SBYTE", "UWORD", "SWORD">>

\* C6: every text holds exactly four RECORD_LAYOUT blocks, UBYTE_SCALAR,
\* SBYTE_SCALAR, UWORD_SCALAR and SWORD_SCALAR in that order, each of one line
\* 'FNC_VALUES 1 <type> ROW_DIR DIRECT' of its type.
C6_RecordLayouts ==
    Rendered =>
        LET b == BeginLines(content, "RECORD_LAYOUT")
            e == EndLines(content, "RECORD_LAYOUT")
        IN  /\ BlockCount(content, "RECORD_LAYOUT") = 4
            /\ Len(b) = 4
            /\ Len(e) = 4
            /\ \A k \in 1..4 :
                  /\ Strs(content[b[k]]) =
                         <<"/begin", "RECORD_LAYOUT", LayoutTypes[k] \o "_SCALAR">>
                  /\ Strs(content[b[k] + 1]) =
                         <<"FNC_VALUES", "1", LayoutTypes[k], "ROW_DIR", "DIRECT">>
                  /\ e[k] = b[k] + 2

\* a text of a session holding a characteristic of a datatype with no layout
C6_Witness ==
    /\ Rendered
    /\ \E i \in DOMAIN generator.characteristics :
          generator.characteristics[i].datatype = "FLOAT32"

\* the text of an empty session
C6_WitnessEmpty == Rendered /\ log = <<>>

-----------------------------------------------------------------------------
(* Blocks and address tokens *)

\* the blocks of one tag, top to bottom, each from its '/begin' line to its
\* '/end' line; <<>> when the two kinds of lines do not pair up
Blocks(text, tag) ==
    LET b == BeginLines(text, tag)
        e == EndLines(text, tag)
    IN  IF /\ Len(b) = Len(e)
           /\ \A k \in DOMAIN b : b[k] < e[k]
           /\ \A k \in 1..(Len(b) - 1) : e[k] < b[k + 1]
        THEN [k \in DOMAIN b |-> SubSeq(text, b[k], e[k])]
        ELSE <<>>

\* the indices of the lines of a block whose first word is w, ascending
LinesOf(block, w) ==
    LET Is(i) == block[i] # <<>> /\ Str(block[i][1]) = w
    IN  SelectSeq(Indices(Len(block)), Is)

\* the word that starts the address-bearing line of a block of each tag
AddressWord(tag) == IF tag = "MEASUREMENT" THEN "ECU_ADDRESS" ELSE "VALUE"

\* the registration operation behind the blocks of each tag
OpOf(tag) ==
    IF tag = "MEASUREMENT" THEN "add_measurement" ELSE "add_characteristic"

VariableTags == {"MEASUREMENT", "CHARACTERISTIC"}

HexDigitChars ==
    {"0", "1", "2", "3", "4", "5", "6", "7",
     "8", "9", "A", "B", "C", "D", "E", "F"}

\* '0x' followed by exactly 8 uppercase hexadecimal digits
IsHex8(tok) ==
    /\ Len(tok) = 9
    /\ tok[1] = "0x"
    /\ \A i \in 2..9 : tok[i] \in HexDigitChars

HexDigitValue(c) == CHOOSE d \in 0..15 : HexUpper[d + 1] = c

\* the integer an address token '0x[-]digits' denotes
HexValue(tok) ==
    LET body   == Tail(tok)
        neg    == body # <<>> /\ body[1] = "-"
        ds     == IF neg THEN Tail(body) ELSE body
        n      == Len(ds)
        Dig(r) == IF r < n THEN HexDigitValue(ds[n - r]) ELSE 0
        Limb(j) == Dig(4 * j - 4) + 16 * Dig(4 * j - 3)
                       + 256 * Dig(4 * j - 2) + 4096 * Dig(4 * j - 1)
        used   == {j \in 1..((n + 3) \div 4) : Limb(j) # 0}
        count  == IF used = {} THEN 0
                  ELSE CHOOSE j \in used : \A i \in used : i <= j
    IN  PyInt(neg, [j \in 1..count |-> Limb(j)])

\* an address of 0 .. 2^32 - 1
InRange32(a) == ~a.neg /\ Len(a.limbs) <= 2

-----------------------------------------------------------------------------
(* C7 *)

\* C7 as stated: whatever integer address was registered, every address token
\* of the text is '0x' followed by exactly 8 uppercase hexadecimal digits.
C7_AnyAddressEightDigits ==
    Rendered =>
        \A tag \in VariableTags :
            LET blocks == Blocks(content, tag)
            IN  \A k \in DOMAIN blocks :
                    \A i \in DOMAIN blocks[k] :
                        (blocks[k][i] # <<>>
                            /\ Str(blocks[k][i][1]) = AddressWord(tag))
                        => IsHex8(blocks[k][i][2])

\* C7 amended: for every registered Measurement and Characteristic whose
\* address is within 0 .. 2^32 - 1, the address token of its block is '0x'
\* followed by exactly 8 uppercase hexadecimal digits that denote the address,
\* zero-padded on the left: 0xDEADBEEF gives 0xDEADBEEF, 0x1000 gives 0x00001000.
C7_AddressEightDigitsInRange ==
    Rendered =>
        \A tag \in VariableTags :
            LET blocks == Blocks(content, tag)
                kws    == Registered(OpOf(tag))
            IN  /\ Len(blocks) = Len(kws)
                /\ \A k \in DOMAIN blocks :
                      LET at  == LinesOf(blocks[k], AddressWord(tag))
                          tok == blocks[k][at[1]][2]
                      IN  /\ Len(at) = 1
                          /\ InRange32(kws[k].address) =>
                                /\ IsHex8(tok)
                                /\ HexValue(tok) = kws[k].address
                          /\ kws[k].address = AddressDEADBEEF =>
                                Str(tok) = "0xDEADBEEF"
                          /\ kws[k].address = Address1000 =>
                                Str(tok) = "0x00001000"

\* a text of a session with a measurement at 0x1000 and a characteristic at
\* 0xDEADBEEF
C7_Witness ==
    /\ Rendered
    /\ gen_at = 2
    /\ log[1].op = "add_measurement"
    /\ log[1].kw.address = Address1000
    /\ log[2].op = "add_characteristic"
    /\ log[2].kw.address = AddressDEADBEEF

-----------------------------------------------------------------------------
(* C8 *)

\* C8: the i-th MEASUREMENT block carries the name, the datatype, the limits
\* and, in exactly one ECU_ADDRESS line, the address of the i-th registered
\* Measurement; the i-th CHARACTERISTIC block carries the name of the i-th
\* registered Characteristic and, in its VALUE line, its address; also when
\* entities share a name or an address.
C8_OwnDataInOwnBlock ==
    Rendered =>
        \A tag \in VariableTags :
            LET blocks == Blocks(content, tag)
                kws    == Registered(OpOf(tag))
            IN  /\ Len(blocks) = Len(kws)
                /\ \A k \in DOMAIN blocks :
                      LET block == blocks[k]
                          at    == LinesOf(block, AddressWord(tag))
                      IN  /\ SubSeq(Strs(block[1]), 1, 3)
                                 = <<"/begin", tag, kws[k].name>>
                          /\ Len(at) = 1
                          /\ HexValue(block[at[1]][2]) = kws[k].address
                          /\ tag = "MEASUREMENT" =>
                                /\ Len(block[2]) = 6
                                /\ Str(block[2][1]) = kws[k].datatype
                                /\ Str(block[2][5])
                                       = ToString(Arg(kws[k], "lower_limit", 0))
                                /\ Str(block[2][6])
                                       = ToString(Arg(kws[k], "upper_limit", 100))

\* a text of a session with two measurements of one name at different addresses
C8_Witness ==
    /\ Rendered
    /\ gen_at = 2
    /\ log[1].op = "add_measurement"
    /\ log[2].op = "add_measurement"
    /\ log[1].kw.name = log[2].kw.name
    /\ log[1].kw.address # log[2].kw.address

\* a text of a session with two measurements of different names at one address
C8_WitnessSharedAddress ==
    /\ Rendered
    /\ gen_at = 2
    /\ log[1].op = "add_measurement"
    /\ log[2].op = "add_measurement"
    /\ log[1].kw.name # log[2].kw.name
    /\ log[1].kw.address = log[2].kw.address

-----------------------------------------------------------------------------
(* C9 *)

\* C9: a MEASUREMENT or CHARACTERISTIC block has a PHYS_UNIT line exactly when
\* the entity's unit, "" when omitted, is not empty; then it has one, which
\* carries the unit in double quotes and lies after the address-bearing line
\* and before the block's '/end'.
C9_PhysUnit ==
    Rendered =>
        \A tag \in VariableTags :
            LET blocks == Blocks(content, tag)
                kws    == Registered(OpOf(tag))
            IN  /\ Len(blocks) = Len(kws)
                /\ \A k \in DOMAIN blocks :
                      LET block == blocks[k]
                          unit  == Arg(kws[k], "unit", "")
                          at    == LinesOf(block, AddressWord(tag))
                          pu    == LinesOf(block, "PHYS_UNIT")
                      IN  IF unit = "" THEN pu = <<>>
                          ELSE /\ Len(pu) = 1
                               /\ Strs(block[pu[1]])
                                      = <<"PHYS_UNIT", "\"" \o unit \o "\"">>
                               /\ Len(at) = 1
                               /\ at[1] < pu[1]
                               /\ pu[1] < Len(block)

\* a text of a session with a measurement registered without a unit and one
\* registered with a unit
C9_Witness ==
    /\ Rendered
    /\ gen_at = 2
    /\ log[1].op = "add_measurement"
    /\ "unit" \notin DOMAIN log[1].kw
    /\ log[2].op = "add_measurement"
    /\ "unit" \in DOMAIN log[2].kw
    /\ log[2].kw.unit = "degC"

-----------------------------------------------------------------------------
(* C10 *)

\* the place of the conversion token in the second line of a block
ConversionPlace(tag) == IF tag = "MEASUREMENT" THEN 2 ELSE 5

\* C10: each block carries, in its own second line, the conversion given at
\* the registration of its entity, NO_COMPU_METHOD when none was given,
\* whether or not a ComputationMethod of that name is registered.
C10_ConversionAsGiven ==
    Rendered =>
        \A tag \in VariableTags :
            LET blocks == Blocks(content, tag)
                kws    == Registered(OpOf(tag))
            IN  /\ Len(blocks) = Len(kws)
                /\ \A k \in DOMAIN blocks :
                      /\ Len(blocks[k][2]) >= ConversionPlace(tag)
                      /\ Str(blocks[k][2][ConversionPlace(tag)])
                             = Arg(kws[k], "conversion", "NO_COMPU_METHOD")

\* a text of a session whose measurement names a conversion that no
\* registered ComputationMethod has
C10_Witness ==
    /\ Rendered
    /\ Registered("add_compu_method") = <<>>
    /\ \E kw \in {Registered("add_measurement")[i] :
                     i \in DOMAIN Registered("add_measurement")} :
          /\ "conversion" \in DOMAIN kw
          /\ kw.conversion = "CM_CUSTOM"

\* a text of a session whose measurement was registered without a conversion
C10_WitnessDefault ==
    /\ Rendered
    /\ \E kw \in {Registered("add_measurement")[i] :
                     i \in DOMAIN Registered("add_measurement")} :
          "conversion" \notin DOMAIN kw

-----------------------------------------------------------------------------
(* C11 *)

\* C11: generate() cannot fail: whatever the registrations and the loader
\* put in the instance, a generate() call raises no error and returns a text.
C11_GenerateCannotFail ==
    outcome.op = "generate" =>
        /\ outcome.error = ""
        /\ content # <<>>
        /\ gen_at = Len(log)

-----------------------------------------------------------------------------
(* C12 *)

\* the step is a load_from_json call
LoadStep == log' # log /\ outcome'.op = "load_from_json"

\* the file that call was made on
LoadedFile == log'[Len(log')].kw

Sequences3(self) ==
    <<self.compu_methods, self.measurements, self.characteristics>>

\* C12: a load_from_json call that fails leaves the three sequences exactly
\* as they were before it, and one that returns has registered every record
\* of the document.
C12_FailedLoadLeavesNothing ==
    [][LoadStep =>
          IF outcome'.error # ""
          THEN Sequences3(generator') = Sequences3(generator)
          ELSE generator' = ApplyAll(generator, ConfigCalls(LoadedFile.config))
      ]_vars

-----------------------------------------------------------------------------
(* C13 *)

\* the defaults the registration operations are documented with
DocumentedDefaults ==
    [description |-> "", unit |-> "", lower_limit |-> 0, upper_limit |-> 100,
     conversion |-> "NO_COMPU_METHOD"]

VariableKeys ==
    {"name", "address", "datatype", "description", "unit", "lower_limit",
     "upper_limit", "conversion"}

CompuMethodKeys == {"name", "formula", "unit", "description"}

\* a record with its unknown fields dropped and its missing ones defaulted
Defaulted(record, keys) ==
    [k \in keys |->
        IF k \in DOMAIN record THEN record[k] ELSE DocumentedDefaults[k]]

DefaultedAll(config, key, keys) ==
    IF key \in DOMAIN config
    THEN [i \in DOMAIN config[key] |-> Defaulted(config[key][i], keys)]
    ELSE <<>>

\* every record of the document carries the fields that have no default
CompleteRecords(config) ==
    LET calls == ConfigCalls(config)
    IN  \A i \in DOMAIN calls :
            IF calls[i].op = "add_compu_method"
            THEN {"name", "formula", "unit"} \subseteq DOMAIN calls[i].kw
            ELSE {"name", "address", "datatype"} \subseteq DOMAIN calls[i].kw

\* C13: loading a JSON document whose records carry the required fields does
\* not fail, and appends every record with its missing optional fields at
\* their defaults and its unknown fields ignored.
C13_DefaultsAndUnknownFields ==
    [][(LoadStep /\ LoadedFile.exists /\ LoadedFile.json
            /\ CompleteRecords(LoadedFile.config)) =>
          /\ outcome'.error = ""
          /\ generator'.compu_methods = generator.compu_methods
                \o DefaultedAll(LoadedFile.config, "compu_methods",
                                CompuMethodKeys)
          /\ generator'.measurements = generator.measurements
                \o DefaultedAll(LoadedFile.config, "measurements", VariableKeys)
          /\ generator'.characteristics = generator.characteristics
                \o DefaultedAll(LoadedFile.config, "characteristics",
                                VariableKeys)
      ]_vars

-----------------------------------------------------------------------------
(* C14 *)

\* the lines on which two texts differ
DifferingLines(a, b) == {i \in DOMAIN a : a[i] # b[i]}

\* two lines that are USER "Generated <stamp>" and differ in <stamp> alone
SameButStamp(l1, l2) ==
    /\ Len(l1) = 2 /\ Len(l2) = 2
    /\ l1[1] = <<"USER">> /\ l2[1] = <<"USER">>
    /\ Len(l1[2]) = 4 /\ Len(l2[2]) = 4
    /\ \A k \in {1, 2, 4} : l1[2][k] = l2[2][k]

\* C14: with the instance as it was when generate() returned content, another
\* generate() call returns the same text when the clock reading is the same,
\* and under any other reading a text that differs from it in nothing but
\* the timestamp string of the one USER "Generated ..." line.
C14_SameTextButTimestamp ==
    (Rendered /\ outcome.op = "generate") =>
        \A now \in Clock :
            LET again == generate(generator, now) IN
            /\ Len(again) = Len(content)
            /\ now = outcome.now => again = content
            /\ Cardinality(DifferingLines(again, content)) <= 1
            /\ \A i \in DifferingLines(again, content) :
                   SameButStamp(again[i], content[i])

\* generate() has returned the text of an instance that holds entries of
\* every kind, and a call under the other clock reading changes the text
C14_Witness ==
    /\ Rendered /\ outcome.op = "generate"
    /\ generator.compu_methods # <<>>
    /\ generator.measurements # <<>>
    /\ generator.characteristics # <<>>
    /\ \E now \in Clock : generate(generator, now) # content

-----------------------------------------------------------------------------
(* C15 *)

\* the catalog was loaded into an empty instance, and nothing else was done
CatalogLoaded == log = <<Call("add_standard_ecu_variables", <<>>)>>

NamesOf(entries) == [i \in DOMAIN entries |-> entries[i].name]

\* the first place of x in s, 0 when it has none
Position(s, x) ==
    IF \E i \in DOMAIN s : s[i] = x
    THEN CHOOSE i \in DOMAIN s : s[i] = x /\ \A j \in 1..(i - 1) : s[j] # x
    ELSE 0

\* every element of sub is in s, and they come in s in the order of sub
InOrder(sub, s) ==
    /\ \A k \in DOMAIN sub : Position(s, sub[k]) > 0
    /\ \A k \in 1..(Len(sub) - 1) : Position(s, sub[k]) < Position(s, sub[k + 1])

Distinct(s) == \A i, j \in DOMAIN s : i # j => s[i] # s[j]

\* C15: after add_standard_ecu_variables on an empty instance the
\* measurements hold engineRPM, coolantTemp, throttlePosition,
\* manifoldPressure, airFuelRatio, shortTermFuelTrim, longTermFuelTrim,
\* injectorPulseWidth, knockRetard, knockLevel, boostPressure, boostTarget and
\* wastegatePosition, in this order, the characteristics idleRPMTarget before
\* revLimit and the computation methods CM_RPM before CM_TEMP; and the text
\* generated then has more than five COMPU_METHOD blocks, their names
\* pairwise distinct.
C15_CatalogEntries ==
    CatalogLoaded =>
        /\ InOrder(<<"engineRPM", "coolantTemp", "throttlePosition",
                     "manifoldPressure", "airFuelRatio", "shortTermFuelTrim",
                     "longTermFuelTrim", "injectorPulseWidth", "knockRetard",
                     "knockLevel", "boostPressure", "boostTarget",
                     "wastegatePosition">>,
                   NamesOf(generator.measurements))
        /\ InOrder(<<"idleRPMTarget", "revLimit">>,
                   NamesOf(generator.characteristics))
        /\ InOrder(<<"CM_RPM", "CM_TEMP">>, NamesOf(generator.compu_methods))
        /\ Rendered =>
              /\ Len(BlockNames(content, "COMPU_METHOD")) > 5
              /\ Distinct(BlockNames(content, "COMPU_METHOD"))

\* the text of an instance that holds the catalog and nothing else
C15_Witness ==
    /\ CatalogLoaded
    /\ Rendered
    /\ Len(BlockNames(content, "COMPU_METHOD")) = Len(generator.compu_methods)

-----------------------------------------------------------------------------
(* C16 *)

\* the registrations of one kind made on instance k, in call order
RegistrationsOn(k, op) ==
    LET Is(c) == c.op = op
    IN  SelectSeq(Registrations(CallsOn(k)), Is)

\* instance k as it would be had its own calls been made on it alone
Alone(k) ==
    LET ms  == RegistrationsOn(k, "add_measurement")
        cs  == RegistrationsOn(k, "add_characteristic")
        cms == RegistrationsOn(k, "add_compu_method")
    IN  [project_name    |-> inst[k].project_name,
         version         |-> inst[k].version,
         measurements    |-> [i \in DOMAIN ms |-> Variable(ms[i].kw)],
         characteristics |-> [i \in DOMAIN cs |-> Variable(cs[i].kw)],
         compu_methods   |-> [i \in DOMAIN cms |-> CompuMethod(cms[i].kw)],
         record_layouts  |-> <<>>]

\* the text of instance k is of the instance as it is now
RenderedOn(k) ==
    texts[k].content # <<>> /\ texts[k].at = Len(CallsOn(k))

\* C16: of two instances whose calls interleave, each holds in its three
\* sequences exactly the entries registered on it, in its own call order,
\* and the text its generate() returns is the text it would return had the
\* other instance not existed.
C16_NoSharedState ==
    \A k \in DOMAIN inst :
        /\ Deref(heap, inst[k]) = Alone(k)
        /\ RenderedOn(k) =>
              \E now \in Clock : texts[k].content = generate(Alone(k), now)

\* both instances have had a registration, the second after the first,
\* and the first has generated its text after both
C16_Witness ==
    /\ Len(log) = 2
    /\ log[1].on = 1
    /\ log[2].on = 2
    /\ RenderedOn(1)

-----------------------------------------------------------------------------
(* C17 *)

IsPrefix(a, b) == Len(a) <= Len(b) /\ SubSeq(b, 1, Len(a)) = a

\* the step is a call of method op (generate() is the call the log does
\* not record)
StepOf(op) ==
    IF op = "generate" THEN log' = log /\ outcome'.op = "generate"
    ELSE log' # log /\ log'[Len(log')].op = op

\* the step appends one entry to the sequence of kind and leaves the other
\* two as they are
AppendsOneTo(kind) ==
    /\ Len(generator'[kind]) = Len(generator[kind]) + 1
    /\ \A other \in {"measurements", "characteristics", "compu_methods"} \ {kind} :
           generator'[other] = generator[other]

\* C17: every step leaves the project name and the version as they are and
\* each of the three sequences a prefix of what it becomes; an
\* add_measurement, add_characteristic or add_compu_method call appends
\* exactly one entry to the sequence of its kind and nothing to the other
\* two; generate() and save() leave the instance as it is.
C17_AppendOnly ==
    [][/\ generator'.project_name = generator.project_name
       /\ generator'.version = generator.version
       /\ \A kind \in {"measurements", "characteristics", "compu_methods"} :
              IsPrefix(generator[kind], generator'[kind])
       /\ StepOf("add_measurement") => AppendsOneTo("measurements")
       /\ StepOf("add_characteristic") => AppendsOneTo("characteristics")
       /\ StepOf("add_compu_method") => AppendsOneTo("compu_methods")
       /\ StepOf("generate") => generator' = generator
       /\ StepOf("save") => generator' = generator
      ]_vars

\* save() has written the text of an instance that holds a registered entry
C17_Witness ==
    /\ outcome.op = "save"
    /\ outcome.error = ""
    /\ Len(log) = 2
    /\ log[1].op = "add_characteristic"
    /\ Len(generator.characteristics) = 1
    /\ "output.a2l" \in DOMAIN files

-----------------------------------------------------------------------------
(* C19 *)

\* clock reading a is not later than b
NotLater(a, b) ==
    LET A == <<a.year, a.month, a.day, a.hour, a.minute, a.second>>
        B == <<b.year, b.month, b.day, b.hour, b.minute, b.second>>
    IN  \/ A = B
        \/ \E i \in 1..6 : A[i] < B[i] /\ \A j \in 1..(i - 1) : A[j] = B[j]

\* the last call was a save() that generated its text and could not write it
SaveFailed ==
    outcome.op = "save" /\ outcome.error = "FileNotFoundError"

\* C19: a save() that fails on its destination leaves the instance as it
\* is, and the save() to another destination that follows it writes the
\* text the failed one had generated, without generating another.
C19_RetryWritesGeneratedText ==
    [][/\ (StepOf("save") /\ outcome'.error # "") => generator' = generator
       /\ (SaveFailed /\ StepOf("save") /\ outcome'.error = ""
               /\ NotLater(outcome.now, outcome'.now)) =>
             files'[log'[Len(log')].kw] = outcome.text
      ]_vars

-----------------------------------------------------------------------------
(* C18 *)

\* the names of the RECORD_LAYOUT blocks of a text
DefinedLayouts(text) ==
    {BlockNames(text, "RECORD_LAYOUT")[k] :
        k \in DOMAIN BlockNames(text, "RECORD_LAYOUT")}

\* C18: the second line of the k-th CHARACTERISTIC block is VALUE, the
\* address of the k-th registered characteristic, its datatype followed by
\* _SCALAR, 0, its conversion, its lower limit and its upper limit, in this
\* order; and for the datatypes ULONG, SLONG and FLOAT32 the layout so named
\* is the name of no RECORD_LAYOUT block of the text.
C18_ValueLine ==
    Rendered =>
        LET blocks == Blocks(content, "CHARACTERISTIC")
            kws    == Registered("add_characteristic")
        IN  /\ Len(blocks) = Len(kws)
            /\ \A k \in DOMAIN blocks :
                  LET value == blocks[k][2] IN
                  /\ Len(value) = 7
                  /\ Str(value[1]) = "VALUE"
                  /\ HexValue(value[2]) = kws[k].address
                  /\ Str(value[3]) = kws[k].datatype \o "_SCALAR"
                  /\ Str(value[4]) = "0"
                  /\ Str(value[5])
                         = Arg(kws[k], "conversion", "NO_COMPU_METHOD")
                  /\ Str(value[6]) = ToString(Arg(kws[k], "lower_limit", 0))
                  /\ Str(value[7]) = ToString(Arg(kws[k], "upper_limit", 100))
                  /\ kws[k].datatype \in {"ULONG", "SLONG", "FLOAT32"} =>
                         Str(value[3]) \notin DefinedLayouts(content)

\* a text with a CHARACTERISTIC of datatype FLOAT32 and one of a datatype
\* that has a layout
C18_Witness ==
    /\ Rendered
    /\ \E i, j \in DOMAIN Registered("add_characteristic") :
          /\ Registered("add_characteristic")[i].datatype = "FLOAT32"
          /\ Registered("add_characteristic")[j].datatype = "UBYTE"

-----------------------------------------------------------------------------
(* C20 *)

\* C20: after add_standard_ecu_variables on an empty instance, the
\* conversion of every measurement and characteristic is NO_COMPU_METHOD or
\* the name of a registered computation method, the names are pairwise
\* distinct within each of the three sequences, and in the text generated
\* then the layout every CHARACTERISTIC names is the name of one of the
\* RECORD_LAYOUT blocks, of which there are four.
C20_CatalogConsistent ==
    CatalogLoaded =>
        LET variables == generator.measurements \o generator.characteristics
            methods   == {generator.compu_methods[i].name :
                             i \in DOMAIN generator.compu_methods}
        IN  /\ \A i \in DOMAIN variables :
                  variables[i].conversion \in methods \cup {"NO_COMPU_METHOD"}
            /\ Distinct(NamesOf(generator.measurements))
            /\ Distinct(NamesOf(generator.characteristics))
            /\ Distinct(NamesOf(generator.compu_methods))
            /\ Rendered =>
                  /\ Cardinality(DefinedLayouts(content)) = 4
                  /\ \A i \in DOMAIN generator.characteristics :
                         generator.characteristics[i].datatype \o "_SCALAR"
                             \in DefinedLayouts(content)
                  /\ \A k \in DOMAIN Blocks(content, "CHARACTERISTIC") :
                         Str(Blocks(content, "CHARACTERISTIC")[k][2][3])
                             \in DefinedLayouts(content)

\* the text of the catalog: some of its entries name a computation method,
\* some name none
C20_Witness ==
    /\ CatalogLoaded
    /\ Rendered
    /\ \E i, j \in DOMAIN generator.characteristics :
          /\ generator.characteristics[i].conversion = "NO_COMPU_METHOD"
          /\ generator.characteristics[j].conversion # "NO_COMPU_METHOD"

-----------------------------------------------------------------------------
(* C21 *)

\* the number an address below 2^31 denotes
AddressValue(a) ==
    IF a.limbs = <<>> THEN 0
    ELSE IF Len(a.limbs) = 1 THEN a.limbs[1]
    ELSE a.limbs[2] * 65536 + a.limbs[1]

\* the bytes a value of a datatype occupies
WidthOf(datatype) ==
    IF datatype \in {"UBYTE", "SBYTE"} THEN 1
    ELSE IF datatype \in {"UWORD", "SWORD"} THEN 2
    ELSE 4

\* the number after ALIGNMENT_WORD in the MOD_COMMON block of a text
AlignmentWord(text) ==
    LET at == LinesOf(text, "ALIGNMENT_WORD")
    IN  CHOOSE n \in 1..8 : ToString(n) = Str(text[at[1]][2])

\* the byte addresses an entry occupies
BytesOf(v) ==
    {AddressValue(v.address) + d : d \in 0..(WidthOf(v.datatype) - 1)}

\* no two entries of a sequence of variables occupy a common byte
NoOverlap(variables) ==
    \A i, j \in DOMAIN variables :
        i # j => BytesOf(variables[i]) \cap BytesOf(variables[j]) = {}

\* every UWORD and SWORD entry lies at a multiple of the word alignment
WordsAligned(variables, alignment) ==
    \A i \in DOMAIN variables :
        variables[i].datatype \in {"UWORD", "SWORD"} =>
            AddressValue(variables[i].address) % alignment = 0

\* C21: in the text generated after add_standard_ecu_variables on an empty
\* instance, the address of every measurement and characteristic of
\* datatype UWORD or SWORD is a multiple of the ALIGNMENT_WORD the text
\* declares (2), and no two entries occupy a common byte, an entry taking 1
\* byte for UBYTE and SBYTE and 2 bytes for UWORD and SWORD.
C21_CatalogAlignedNoOverlap ==
    (CatalogLoaded /\ Rendered) =>
        LET variables == generator.measurements \o generator.characteristics
        IN  /\ AlignmentWord(content) = 2
            /\ WordsAligned(variables, AlignmentWord(content))
            /\ NoOverlap(variables)

-----------------------------------------------------------------------------
(* C22 *)

CollectionKeys == <<"compu_methods", "measurements", "characteristics">>

KeysOf(k) == IF k = 1 THEN CompuMethodKeys ELSE VariableKeys

NeededOf(k) ==
    IF k = 1 THEN {"name", "formula", "unit"}
    ELSE {"name", "address", "datatype"}

\* the records of collection k in document order, none when its key is absent
RecordsOf(config, k) ==
    IF CollectionKeys[k] \in DOMAIN config THEN config[CollectionKeys[k]]
    ELSE <<>>

Accepted(record, k) ==
    NeededOf(k) \subseteq DOMAIN record /\ DOMAIN record \subseteq KeysOf(k)

\* the place of the first record of collection k that is not accepted, one
\* past the end when all are
FirstRejected(config, k) ==
    LET records == RecordsOf(config, k)
        rejected == {i \in DOMAIN records : ~Accepted(records[i], k)}
    IN  IF rejected = {} THEN Len(records) + 1
        ELSE CHOOSE i \in rejected : \A j \in rejected : i <= j

\* what a load of the document registers in collection k: with the
\* collections read in the order of CollectionKeys, every record up to the
\* first one that is not accepted
Taken(config, k) ==
    LET records == RecordsOf(config, k)
        reached == \A j \in 1..(k - 1) :
                       FirstRejected(config, j) > Len(RecordsOf(config, j))
    IN  IF reached
        THEN [i \in 1..(FirstRejected(config, k) - 1) |->
                  Defaulted(records[i], KeysOf(k))]
        ELSE <<>>

\* the entries of the standard catalog in collection k, in source order
CatalogEntries(k) ==
    LET op == <<"add_compu_method", "add_measurement",
                "add_characteristic">>[k]
        calls == SelectSeq(StandardCalls, LAMBDA call : call.op = op)
    IN  [i \in DOMAIN calls |->
            IF k = 1 THEN CompuMethod(calls[i].kw) ELSE Variable(calls[i].kw)]

NoEntries == <<<<>>, <<>>, <<>>>>

\* after holds before followed by what a load of the file registers
LoadedAfter(before, after, file, returned) ==
    \A k \in 1..3 :
        /\ after[k] = before[k] \o Taken(file.config, k)
        /\ returned => Len(Taken(file.config, k))
                           = Len(RecordsOf(file.config, k))

MainStep == log' # log /\ outcome'.op = "main"

BothRequested(args) == args.standard /\ args.config # <<>>

\* what main() has done with the command line args
MainPopulated(args, after, returned) ==
    LET start == IF args.standard
                 THEN [k \in 1..3 |-> CatalogEntries(k)] ELSE NoEntries
    IN  IF args.config = <<>> THEN after = start
        ELSE LoadedAfter(start, after, args.config[1], returned)

TwoCatalogs ==
    <<Call("add_standard_ecu_variables", <<>>),
      Call("add_standard_ecu_variables", <<>>)>>

\* C22: population is additive and ordered. A load_from_json call appends to
\* each sequence, after what it held, the records of compu_methods, then of
\* measurements, then of characteristics, each in document order and none for
\* an absent key (all of them when the call returns, those before the first
\* rejected record when it raises); add_standard_ecu_variables appends the
\* catalog after what the sequences held; main(), asked for both, leaves the
\* catalog entries before the configuration entries in every sequence; and
\* two catalog loads leave every catalog entry twice.
C22_AdditiveOrdered ==
    [][ /\ LoadStep =>
              LoadedAfter(Sequences3(generator), Sequences3(generator'),
                          LoadedFile, outcome'.error = "")
        /\ StepOf("add_standard_ecu_variables") =>
              \A k \in 1..3 :
                  Sequences3(generator')[k]
                      = Sequences3(generator)[k] \o CatalogEntries(k)
        /\ MainStep =>
              MainPopulated(log'[1].kw, Sequences3(generator'),
                            outcome'.error \notin {"TypeError",
                                                   "JSONDecodeError"}
                            /\ (log'[1].kw.config # <<>> =>
                                    log'[1].kw.config[1].exists))
        /\ log' = TwoCatalogs =>
              \A k \in 1..3 :
                  Sequences3(generator')[k]
                      = CatalogEntries(k) \o CatalogEntries(k)
      ]_vars

\* main() has run with the catalog and a configuration of all three
\* collections, and has saved the file
C22_Witness ==
    /\ outcome.op = "main"
    /\ outcome.error = ""
    /\ BothRequested(log[1].kw)
    /\ \A k \in 1..3 : RecordsOf(log[1].kw.config[1].config, k) # <<>>
    /\ \A k \in 1..3 :
           /\ Len(Sequences3(generator)[k]) > Len(CatalogEntries(k))
           /\ SubSeq(Sequences3(generator)[k], 1, Len(CatalogEntries(k)))
                  = CatalogEntries(k)

=============================================================================
